---- MODULE Spec2Model ----
(***************************************************************************)
(* Work-rotation calendar: the per-employee rotation state machine of      *)
(* employee.py and the schedule generator of schedule_generator.py.        *)
(*                                                                         *)
(* Dates are day offsets from the reference date 2025-08-01 (offset 0);    *)
(* a negative offset is a date before the reference date.                  *)
(* The shift names are the source's strings, 'Mañana' written "Manana".    *)
(*                                                                         *)
(* Eight specifications share the module:                                  *)
(*   SpecEmployee   one Employee, constructed with any arguments at a      *)
(*                  valid position, advanced day by day and read;          *)
(*   SpecTable      one Employee constructed and advanced while the class  *)
(*                  attribute ROTATION_PATTERN holds one of several tables;*)
(*   SpecSearch     test_rotations.test_combination on every combination   *)
(*                  of starting positions;                                 *)
(*   SpecTwo        two ScheduleGenerator objects whose steps interleave;  *)
(*   SpecRepeat     one generator on which generate_schedule is called     *)
(*                  again after it returned;                               *)
(*   SpecCalendar   create_calendar_format on a schedule of consecutive    *)
(*                  days, with dates as (year, month, day);                *)
(*   SpecReference  the three employees of the factory methods, advanced   *)
(*                  in lockstep from the reference date;                   *)
(*   Spec           a ScheduleGenerator: its constructor, and its methods  *)
(*                  _advance_to_start_date and generate_schedule run on    *)
(*                  a generator object holding three employees.            *)
(***************************************************************************)
EXTENDS Integers, Sequences, FiniteSets, TLC

VARIABLES
    emp,                  \* SpecEmployee: the Employee object
    emp0,                 \* SpecEmployee: the object as __init__ left it
    steps,                \* SpecEmployee: advance_day calls made so far
    last_read,            \* SpecEmployee: what the reads since the last advance returned
    resting_log,          \* SpecEmployee: is_resting on each day so far, first day first
    pattern,              \* SpecTable: the class attribute ROTATION_PATTERN
    t_pc,                 \* SpecTable: "class", "constructed", "advanced", "IndexError"
    t_emp,                \* SpecTable: the Employee object
    t_steps,              \* SpecTable: advance_day calls made so far
    tc_pc,                \* SpecSearch: where test_combination stands
    tc_args,              \* SpecSearch: the six arguments of test_combination
    tc_employees,         \* SpecSearch: the local dict employees
    tc_day,               \* SpecSearch: the loop index day
    valid_days,           \* SpecSearch: the local counter valid_days
    heap,                 \* SpecTwo: the Employee objects, by object identity
    gens,                 \* SpecTwo: the two ScheduleGenerator objects
    again,                \* SpecRepeat: a generator on which generate_schedule is called twice
    cal,                  \* SpecCalendar: a call of create_calendar_format
    ref,                  \* SpecReference: the three factory employees
    ref_day,              \* SpecReference: lockstep advances made so far
    pc,                   \* Spec: where the generator's caller stands
    employees,            \* Spec: self.employees
    start_date,           \* Spec: self.start_date, days after the reference date
    num_days,             \* Spec: generate_schedule's argument
    day,                  \* Spec: the loop index of generate_schedule
    general_schedule,     \* Spec: the local list general_schedule
    individual_schedules, \* Spec: the local dict individual_schedules
    returned,             \* Spec: what generate_schedule handed to its caller
    employees0,           \* Spec: self.employees when generate_schedule was called
    anchor                \* Spec: self.employees as the dict literal of __init__ left it

vars == << emp, emp0, steps, last_read, resting_log, pattern, t_pc, t_emp, t_steps, tc_pc,
           tc_args, tc_employees, tc_day, valid_days, heap, gens, again, cal, ref,
           ref_day,
           pc, employees, start_date, num_days,
           day, general_schedule, individual_schedules, returned, employees0,
           anchor >>

empVars == << emp, emp0, steps, last_read, resting_log >>
tableVars == << pattern, t_pc, t_emp, t_steps >>
searchVars == << tc_pc, tc_args, tc_employees, tc_day, valid_days >>
twoVars == << heap, gens >>
repeatVars == << again >>
calendarVars == << cal >>
auxVars == << tableVars, searchVars, twoVars, repeatVars, calendarVars >>
refVars == << ref, ref_day >>
genVars == << pc, employees, start_date, num_days, day, general_schedule,
              individual_schedules, returned, employees0, anchor >>

(***************************************************************************)
(* Bounds of the model.                                                    *)
(***************************************************************************)
MaxSteps == 43

MaxRefDays == 110

MaxStartDate == 2

MaxNumDays == 3

MaxTableSteps == 4

(***************************************************************************)
(* employee.py                                                             *)
(***************************************************************************)
\* Employee.ROTATION_PATTERN: (work_days, rest_days) per block; the source's
\* index i is position i + 1 of the sequence.
\* A faulty variant of the table: still 21 days, the last block 5-1.
ROTATION_PATTERN_5_1 == << <<3, 2>>, <<3, 2>>, <<4, 1>>, <<5, 1>> >>

ROTATION_PATTERN == << <<3, 2>>, <<3, 2>>, <<4, 1>>, <<4, 2>> >>

\* A faulty variant of cycle_shifts: the last two entries exchanged.
cycle_shifts_swapped == << "Tarde", "Manana", "Manana", "Tarde" >>

\* The list cycle_shifts local to advance_day.
cycle_shifts == << "Tarde", "Manana", "Tarde", "Manana" >>

\* The shift strings callers pass to __init__: the table's values, and the
\* 'Morning' / 'Afternoon' of the docstring and of test_rotations.py.
Shifts == {"Manana", "Tarde", "Morning", "Afternoon"}

EmployeeNames == {"Ludy", "Sanye", "Clari"}

\* Employee.__init__: every argument is stored as given.
Employee(name, initial_cycle_index, initial_day_in_cycle, initial_shift, is_resting) ==
    [ name                 |-> name,
      current_cycle_index  |-> initial_cycle_index,
      current_day_in_cycle |-> initial_day_in_cycle,
      current_shift        |-> initial_shift,
      is_resting           |-> is_resting,
      shift_cycle_count    |-> 0 ]

get_current_cycle(e) == ROTATION_PATTERN[e.current_cycle_index + 1]

work_days(e) == get_current_cycle(e)[1]

rest_days(e) == get_current_cycle(e)[2]

get_status_for_day(e) ==
    IF e.is_resting THEN << "Descanso", "-" >>
                    ELSE << "Trabajando", e.current_shift >>

\* Faulty variants of advance_day (no block change; block change one day early;
\* shift flipped instead of looked up), which the claims' formulas must reject.
advance_day_no_wrap(e) ==
    LET d == e.current_day_in_cycle + 1
    IN  [e EXCEPT !.current_day_in_cycle = d,
                  !.is_resting = d > work_days(e)]

advance_day_early_wrap(e) ==
    LET d       == e.current_day_in_cycle + 1
        wrapped == d >= work_days(e) + rest_days(e)
        ci      == IF wrapped THEN (e.current_cycle_index + 1) % Len(ROTATION_PATTERN)
                              ELSE e.current_cycle_index
        d2      == IF wrapped THEN 1 ELSE d
    IN  [e EXCEPT !.current_cycle_index = ci,
                  !.current_day_in_cycle = d2,
                  !.current_shift = IF wrapped THEN cycle_shifts[ci + 1] ELSE @,
                  !.is_resting = d2 > ROTATION_PATTERN[ci + 1][1]]

advance_day_alternate(e) ==
    LET d       == e.current_day_in_cycle + 1
        wrapped == d > work_days(e) + rest_days(e)
        ci      == IF wrapped THEN (e.current_cycle_index + 1) % Len(ROTATION_PATTERN)
                              ELSE e.current_cycle_index
        d2      == IF wrapped THEN 1 ELSE d
    IN  [e EXCEPT !.current_cycle_index = ci,
                  !.current_day_in_cycle = d2,
                  !.current_shift = IF wrapped
                                    THEN (IF @ = "Tarde" THEN "Manana" ELSE "Tarde")
                                    ELSE @,
                  !.is_resting = d2 > ROTATION_PATTERN[ci + 1][1]]

\* A faulty variant of advance_day: the block ends with its work days.
advance_day_wrap_after_work(e) ==
    LET d       == e.current_day_in_cycle + 1
        wrapped == d > work_days(e)
        ci      == IF wrapped THEN (e.current_cycle_index + 1) % Len(ROTATION_PATTERN)
                              ELSE e.current_cycle_index
        d2      == IF wrapped THEN 1 ELSE d
    IN  [e EXCEPT !.current_cycle_index = ci,
                  !.current_day_in_cycle = d2,
                  !.current_shift = IF wrapped THEN cycle_shifts[ci + 1] ELSE @,
                  !.is_resting = d2 > ROTATION_PATTERN[ci + 1][1]]

\* Employee.advance_day.
advance_day(e) ==
    LET total_cycle_days == work_days(e) + rest_days(e)
        d       == e.current_day_in_cycle + 1
        wrapped == d > total_cycle_days
        ci      == IF wrapped THEN (e.current_cycle_index + 1) % Len(ROTATION_PATTERN)
                              ELSE e.current_cycle_index
        d2      == IF wrapped THEN 1 ELSE d
    IN  [e EXCEPT !.current_cycle_index = ci,
                  !.current_day_in_cycle = d2,
                  !.current_shift = IF wrapped THEN cycle_shifts[ci + 1] ELSE @,
                  !.is_resting = d2 > ROTATION_PATTERN[ci + 1][1]]

\* Employee.get_schedule_info; the label f"{work}-{rest}" is kept as the pair.
get_schedule_info(e) ==
    [ status       |-> get_status_for_day(e)[1],
      shift        |-> get_status_for_day(e)[2],
      cycle        |-> get_current_cycle(e),
      day_in_cycle |-> e.current_day_in_cycle,
      cycle_index  |-> e.current_cycle_index ]

\* The object after get_status_for_day: lines 46-49 assign no attribute.
after_get_status_for_day(e) == e

\* A faulty variant: a getter that moves the employee on to the next day.
after_get_schedule_info_advancing(e) == advance_day(e)

\* The object after get_schedule_info: it calls get_status_for_day and
\* get_current_cycle and assigns no attribute.
after_get_schedule_info(e) == after_get_status_for_day(e)

\* No read made since the last advance.
NoReads == [ status |-> << >>, info |-> << >> ]

\* The factory methods.
create_ludy == Employee("Ludy", 3, 4, "Manana", FALSE)

\* A faulty variant of create_sanye: one day further into the 4-1 block.
create_sanye_day3 == Employee("Sanye", 2, 3, "Tarde", FALSE)

create_sanye == Employee("Sanye", 2, 2, "Tarde", FALSE)

\* A faulty variant of create_clari: the morning shift its docstring speaks of.
create_clari_manana == Employee("Clari", 0, 5, "Manana", TRUE)

create_clari == Employee("Clari", 0, 5, "Tarde", TRUE)

\* The positions the docstring of __init__ allows: an index of the pattern and
\* a 1-based day within that block.
ValidPositions ==
    { p \in (0 .. Len(ROTATION_PATTERN) - 1) \X (1 .. 6) :
        p[2] <= ROTATION_PATTERN[p[1] + 1][1] + ROTATION_PATTERN[p[1] + 1][2] }

(***************************************************************************)
(* SpecEmployee: one Employee constructed with any arguments at a valid    *)
(* position, then advanced.                                                *)
(***************************************************************************)
EmpIdle ==
    /\ emp = "none" /\ emp0 = "none" /\ steps = 0 /\ last_read = << >>
    /\ resting_log = << >>

TableIdle == pattern = ROTATION_PATTERN /\ t_pc = "none" /\ t_emp = << >> /\ t_steps = 0

SearchIdle ==
    /\ tc_pc = "none"
    /\ tc_args = << >>
    /\ tc_employees = << >>
    /\ tc_day = 0
    /\ valid_days = 0

TwoIdle == heap = << >> /\ gens = << >>

RepeatIdle == again = << >>

CalendarIdle == cal = << >>

AuxIdle == TableIdle /\ SearchIdle /\ TwoIdle /\ RepeatIdle /\ CalendarIdle

RefIdle == ref = "none" /\ ref_day = 0

GenIdle ==
    /\ pc = "none" /\ employees = << >> /\ start_date = 0 /\ num_days = 0
    /\ day = 0 /\ general_schedule = << >> /\ individual_schedules = << >>
    /\ returned = << >> /\ employees0 = << >> /\ anchor = << >>

InitEmployee ==
    /\ \E n \in EmployeeNames, p \in ValidPositions, s \in Shifts, r \in BOOLEAN :
          emp = Employee(n, p[1], p[2], s, r)
    /\ emp0 = emp
    /\ steps = 0
    /\ last_read = NoReads
    /\ resting_log = << emp.is_resting >>
    /\ RefIdle
    /\ GenIdle
    /\ AuxIdle

AdvanceDay ==
    /\ steps < MaxSteps
    /\ emp' = advance_day(emp)
    /\ steps' = steps + 1
    /\ last_read' = NoReads
    /\ resting_log' = Append(resting_log, emp'.is_resting)
    /\ UNCHANGED << emp0, refVars, genVars, auxVars >>

\* A call emp.get_status_for_day(): the value returned is noted.
GetStatusForDay ==
    /\ emp' = after_get_status_for_day(emp)
    /\ last_read' = [last_read EXCEPT !.status = << get_status_for_day(emp) >>]
    /\ UNCHANGED << emp0, steps, resting_log, refVars, genVars, auxVars >>

\* A call emp.get_schedule_info(): the value returned is noted.
GetScheduleInfo ==
    /\ emp' = after_get_schedule_info(emp)
    /\ last_read' = [last_read EXCEPT !.info = << get_schedule_info(emp) >>]
    /\ UNCHANGED << emp0, steps, resting_log, refVars, genVars, auxVars >>

NextEmployee ==
    \/ AdvanceDay
    \/ GetStatusForDay
    \/ GetScheduleInfo

SpecEmployee == InitEmployee /\ [][NextEmployee]_vars

\* Position of an employee within one 21-day traversal of ROTATION_PATTERN,
\* counted from day 1 of block 0.
RECURSIVE BlockOffset(_)
BlockOffset(i) ==
    IF i = 0 THEN 0
    ELSE BlockOffset(i - 1) + ROTATION_PATTERN[i][1] + ROTATION_PATTERN[i][2]

TraversalLength == BlockOffset(Len(ROTATION_PATTERN))

TraversalDay(e) == BlockOffset(e.current_cycle_index) + e.current_day_in_cycle - 1

Position(e) == << e.current_cycle_index, e.current_day_in_cycle >>

DerivedResting(e) == e.current_day_in_cycle > work_days(e)

\* C6: from a valid position, k advances return (cycle_index, day_in_cycle)
\* to the starting values exactly when k is a multiple of 21 (so 21 advances
\* do and no smaller positive number does), and every advance moves the
\* position forward by exactly one day of the 21-day traversal.
C6_PositionPeriod21 ==
    /\ TraversalLength = 21
    /\ (Position(emp) = Position(emp0)) <=> (steps % 21 = 0)
    /\ TraversalDay(emp) = (TraversalDay(emp0) + steps) % 21

C6_Witness == steps = 21 /\ Position(emp) = Position(emp0) /\ Position(emp0) = << 2, 5 >>

\* C7 (as claimed): for an Employee constructed at a valid position with any
\* shift and any resting flag, 21 advances return shift and resting to the
\* values they had at construction.
C7_ShiftRestingPeriod21 ==
    steps = 21 => /\ emp.current_shift = emp0.current_shift
                  /\ emp.is_resting = emp0.is_resting

\* C8: after every advance_day from a valid position, day_in_cycle lies in
\* 1 .. work_days + rest_days of the current block and cycle_index in 0 .. 3.
C8_PositionInRange ==
    steps >= 1 =>
        /\ emp.current_cycle_index \in 0 .. Len(ROTATION_PATTERN) - 1
        /\ emp.current_day_in_cycle >= 1
        /\ emp.current_day_in_cycle <= work_days(emp) + rest_days(emp)

C8_Witness ==
    /\ steps >= 1
    /\ Position(emp) = << 0, 1 >>
    /\ emp0.current_cycle_index = 3

\* C9 (as claimed): in every state of an Employee, at construction and after
\* any advance_day, is_resting holds iff day_in_cycle > work_days of the
\* current block.
C9_RestingDerived == emp.is_resting <=> DerivedResting(emp)

\* C10: advance_day changes the shift only on a step that enters a new block
\* (cycle_index changes, day_in_cycle becomes 1); on that step the shift is
\* the table entry of the new cycle_index whatever the shift and the name
\* were; on every other step the shift is unchanged.
C10_ShiftOnlyAtBlockEntry ==
    [][ steps' = steps + 1 =>
          IF emp'.current_cycle_index # emp.current_cycle_index
          THEN /\ emp'.current_day_in_cycle = 1
               /\ emp'.current_shift = cycle_shifts[emp'.current_cycle_index + 1]
          ELSE /\ emp'.current_shift = emp.current_shift
               /\ emp'.current_day_in_cycle = emp.current_day_in_cycle + 1 ]_vars

C10_Witness ==
    /\ steps >= 1
    /\ emp.current_day_in_cycle = 1
    /\ emp.current_cycle_index = emp0.current_cycle_index + 1
    /\ emp.current_shift # emp0.current_shift

(***************************************************************************)
(* SpecReference: the three employees the factory methods create for the   *)
(* reference date, advanced together one day at a time (the loop of        *)
(* debug_2025.py, and of generate_schedule).                               *)
(***************************************************************************)
\* The count of validate_daily_schedule / debug_2025.py: employees whose
\* status is 'Trabajando'.
working_count(emps) ==
    Cardinality({ n \in DOMAIN emps : get_status_for_day(emps[n])[1] = "Trabajando" })

resting_count(emps) ==
    Cardinality({ n \in DOMAIN emps : get_status_for_day(emps[n])[1] = "Descanso" })

\* "for employee in employees.values(): employee.advance_day()"
advance_all(emps) == [ n \in DOMAIN emps |-> advance_day(emps[n]) ]

reference_employees ==
    [ n \in EmployeeNames |->
        CASE n = "Ludy"  -> create_ludy
          [] n = "Sanye" -> create_sanye
          [] n = "Clari" -> create_clari ]

InitReference ==
    /\ ref = reference_employees
    /\ ref_day = 0
    /\ EmpIdle
    /\ GenIdle
    /\ AuxIdle

AdvanceReference ==
    /\ ref_day < MaxRefDays
    /\ ref' = advance_all(ref)
    /\ ref_day' = ref_day + 1
    /\ UNCHANGED << empVars, genVars, auxVars >>

NextReference == AdvanceReference

SpecReference == InitReference /\ [][NextReference]_vars

(***************************************************************************)
(* schedule_generator.py                                                   *)
(*                                                                         *)
(* Spec starts either at a call ScheduleGenerator(start_date) (pc = "new") *)
(* or at a generator object whose dict self.employees holds three          *)
(* employees at any valid positions and which is about to run              *)
(* _advance_to_start_date (pc = "populated", line 37 of __init__).         *)
(* The methods are modelled on the second kind of object because the       *)
(* constructor as written never completes: see InitGenerator.              *)
(***************************************************************************)
\* self.reference_date, as a day offset.
reference_date == 0

\* The keys of self.employees.
GeneratorNames == {"Ludy", "Isaac", "Genesis"}

\* The factory methods class Employee defines.
EmployeeFactories == {"create_ludy", "create_sanye", "create_clari"}

call_factory(f) ==
    CASE f = "create_ludy"  -> create_ludy
      [] f = "create_sanye" -> create_sanye
      [] f = "create_clari" -> create_clari

\* The factory __init__ calls for each key.
generator_factories ==
    [ n \in GeneratorNames |->
        CASE n = "Ludy"    -> "create_ludy"
          [] n = "Isaac"   -> "create_isaac"
          [] n = "Genesis" -> "create_genesis" ]

RECURSIVE advance_n(_, _)
advance_n(emps, k) == IF k <= 0 THEN emps ELSE advance_n(advance_all(emps), k - 1)

\* A faulty variant of _advance_to_start_date: one advance too many.
advance_to_start_date_off_by_one(emps, sd) ==
    IF sd >= reference_date THEN advance_n(emps, sd - reference_date + 1) ELSE emps

\* ScheduleGenerator._advance_to_start_date: nothing happens, and nothing is
\* raised, when start_date is before the reference date.
advance_to_start_date(emps, sd) ==
    IF sd >= reference_date THEN advance_n(emps, sd - reference_date) ELSE emps

\* Faulty variants of validate_daily_schedule.
validate_at_least_two(day_schedule) ==
    Cardinality({ n \in DOMAIN day_schedule :
                    day_schedule[n].status = "Trabajando" }) >= 2

validate_count_resting(day_schedule) ==
    Cardinality({ n \in DOMAIN day_schedule :
                    day_schedule[n].status = "Descanso" }) = 2

\* ScheduleGenerator.validate_daily_schedule.
validate_daily_schedule(day_schedule) ==
    Cardinality({ n \in DOMAIN day_schedule :
                    day_schedule[n].status = "Trabajando" }) = 2

\* date.strftime('%Y-%m-%d') of the date at offset d, as (year, month, day),
\* for the dates from 2025-07-01 to 2025-08-31.
strftime_ymd(d) == IF d < 0 THEN << 2025, 7, 32 + d >> ELSE << 2025, 8, 1 + d >>

\* date.strftime('%A') of the date at offset d: 2025-08-01 is a Friday.
weekday(d) ==
    << "Monday", "Tuesday", "Wednesday", "Thursday", "Friday", "Saturday",
       "Sunday" >>[((d + 4) % 7) + 1]

\* The dict spanish_weekdays of generate_schedule.
spanish_weekdays(w) ==
    CASE w = "Monday"    -> "Lunes"
      [] w = "Tuesday"   -> "Martes"
      [] w = "Wednesday" -> "Miercoles"
      [] w = "Thursday"  -> "Jueves"
      [] w = "Friday"    -> "Viernes"
      [] w = "Saturday"  -> "Sabado"
      [] w = "Sunday"    -> "Domingo"

StartDates == -1 .. MaxStartDate

NumDaysArgs == -1 .. MaxNumDays

\* An employee at position p whose shift and resting flag agree with it.
EmployeeAt(name, p) ==
    Employee(name, p[1], p[2], cycle_shifts[p[1] + 1], p[2] > ROTATION_PATTERN[p[1] + 1][1])

Init ==
    /\ EmpIdle
    /\ RefIdle
    /\ AuxIdle
    /\ start_date \in StartDates
    /\ \/ pc = "new" /\ employees = << >>
       \/ /\ pc = "populated"
          /\ \E pos \in [GeneratorNames -> ValidPositions] :
                employees = [ n \in GeneratorNames |-> EmployeeAt(n, pos[n]) ]
    /\ num_days = 0
    /\ day = 0
    /\ general_schedule = << >>
    /\ individual_schedules = << >>
    /\ returned = << >>
    /\ employees0 = << >>
    /\ anchor = employees

\* ScheduleGenerator.__init__: the dict literal calls Employee.create_ludy,
\* Employee.create_isaac and Employee.create_genesis; a name the class does
\* not define raises AttributeError before self.employees is assigned.
InitGenerator ==
    /\ pc = "new"
    /\ IF \A n \in GeneratorNames : generator_factories[n] \in EmployeeFactories
       THEN /\ anchor' = [ n \in GeneratorNames |->
                                call_factory(generator_factories[n]) ]
            /\ employees' = advance_to_start_date(anchor', start_date)
            /\ pc' = "constructed"
       ELSE /\ pc' = "AttributeError"
            /\ UNCHANGED << employees, anchor >>
    /\ UNCHANGED << empVars, refVars, auxVars, start_date, num_days, day, general_schedule,
                    individual_schedules, returned, employees0 >>

\* The call self._advance_to_start_date() that ends __init__.
AdvanceToStartDate ==
    /\ pc = "populated"
    /\ employees' = advance_to_start_date(employees, start_date)
    /\ pc' = "constructed"
    /\ UNCHANGED << empVars, refVars, auxVars, start_date, num_days, day, general_schedule,
                    individual_schedules, returned, employees0, anchor >>

\* generate_schedule(n), lines 75-78: the locals before the loop.
GenerateCall ==
    /\ pc = "constructed"
    /\ \E n \in NumDaysArgs : num_days' = n
    /\ day' = 0
    /\ general_schedule' = << >>
    /\ individual_schedules' = [ n \in GeneratorNames |-> << >> ]
    /\ employees0' = employees
    /\ pc' = "loop"
    /\ UNCHANGED << empVars, refVars, auxVars, employees, start_date, returned, anchor >>

\* One iteration of "for day in range(num_days)", lines 80-119.
GenerateDay ==
    /\ pc = "loop"
    /\ day < num_days
    /\ LET current_date == start_date + day
           day_schedule == [ n \in GeneratorNames |-> get_schedule_info(employees[n]) ]
           individual_record(n) ==
               [ date |-> strftime_ymd(current_date), weekday |-> weekday(current_date) ]
                 @@ day_schedule[n]
           general_record ==
               [ Fecha |-> strftime_ymd(current_date),
                 Dia   |-> spanish_weekdays(weekday(current_date)) ]
                 @@ day_schedule
       IN  /\ individual_schedules' =
                 [ n \in GeneratorNames |->
                     Append(individual_schedules[n], individual_record(n)) ]
           /\ IF ~ validate_daily_schedule(day_schedule)
              THEN /\ pc' = "ValueError"
                   /\ UNCHANGED << general_schedule, employees, day >>
              ELSE /\ general_schedule' = Append(general_schedule, general_record)
                   /\ employees' = advance_all(employees)
                   /\ day' = day + 1
                   /\ pc' = "loop"
    /\ UNCHANGED << empVars, refVars, auxVars, start_date, num_days, returned, employees0,
                    anchor >>

\* "return general_schedule, individual_schedules", line 121.
GenerateReturn ==
    /\ pc = "loop"
    /\ day >= num_days
    /\ returned' = << general_schedule, individual_schedules >>
    /\ pc' = "returned"
    /\ UNCHANGED << empVars, refVars, auxVars, employees, start_date, num_days, day,
                    general_schedule, individual_schedules, employees0, anchor >>

Next ==
    \/ InitGenerator
    \/ AdvanceToStartDate
    \/ GenerateCall
    \/ GenerateDay
    \/ GenerateReturn

Spec == Init /\ [][Next]_vars

\* Employees working in one record of the general schedule.
RecordWorking(rec) ==
    Cardinality({ n \in GeneratorNames : rec[n].status = "Trabajando" })

\* C1: every day record of a roster that generate_schedule returns has exactly
\* 2 employees with status 'Trabajando', whatever the employees' starting
\* positions and num_days; no roster with another count is returned.
C1_ReturnedRosterStaffed ==
    pc = "returned" =>
        \A i \in 1 .. Len(returned[1]) : RecordWorking(returned[1][i]) = 2

C1_Witness ==
    /\ pc = "returned"
    /\ Len(returned[1]) >= 2
    /\ working_count(employees) # 2

\* C3 (as claimed): constructing a generator with a start_date before the
\* reference date fails, so no generator object is produced for such a date.
C3_EarlyStartRejected ==
    start_date < reference_date =>
        pc \notin {"constructed", "loop", "returned", "ValueError"}

\* C4 (as claimed): generate_schedule called with num_days < 1 fails with an
\* error and returns no roster, not even an empty one (stated for generators
\* whose start_date is not before the reference date).
C4_NonPositiveRejected ==
    (pc = "returned" /\ start_date >= reference_date) => num_days >= 1

\* C5: when the staffing check fails, generate_schedule raises at the first
\* day whose working count is not 2 and hands nothing to its caller, although
\* records of earlier valid days were built; and a call whose range of days
\* holds such a day never returns a roster.
C5_AbortAtFirstOffendingDay ==
    /\ pc = "ValueError" =>
          /\ returned = << >>
          /\ day < num_days
          /\ working_count(advance_n(employees0, day)) # 2
          /\ \A j \in 0 .. day - 1 : working_count(advance_n(employees0, j)) = 2
          /\ Len(general_schedule) = day
    /\ pc = "returned" =>
          \A j \in 0 .. num_days - 1 : working_count(advance_n(employees0, j)) = 2

C5_Witness ==
    /\ pc = "ValueError"
    /\ day >= 1
    /\ Len(general_schedule) >= 1
    /\ returned = << >>

\* C2: the three reference employees of employee.py, advanced in lockstep any
\* number of days from the reference date, always show exactly 2 employees
\* working and 1 resting, so the staffing check passes on every day on or
\* after the reference date (the first 7 days included).
C2_ReferenceStaffing ==
    /\ working_count(ref) = 2
    /\ resting_count(ref) = 1
    /\ validate_daily_schedule([ n \in DOMAIN ref |-> get_schedule_info(ref[n]) ])

C2_Witness ==
    /\ ref_day = 28
    /\ ref = advance_all(advance_all(advance_all(advance_all(
               advance_all(advance_all(advance_all(reference_employees)))))))

\* The employee of the example: block 3 (4 work, 2 rest), day 4, 'Afternoon',
\* not resting, advanced once.
C11_Case ==
    /\ steps = 1
    /\ Position(emp0) = << 3, 4 >>
    /\ emp0.current_shift = "Afternoon"
    /\ ~ emp0.is_resting

\* C11 (as claimed): that employee ends at (cycle_index 0, day_in_cycle 1,
\* the block-0 shift, not resting).
C11_WrapsToBlock0 ==
    C11_Case => /\ Position(emp) = << 0, 1 >>
                /\ emp.current_shift = cycle_shifts[1]
                /\ ~ emp.is_resting

\* C11 (amended): that employee stays in block 3 and ends at (cycle_index 3,
\* day_in_cycle 5, shift unchanged, resting), because day 5 does not exceed
\* the block's 4 + 2 = 6 days and exceeds its 4 work days.
C11_StaysInBlock3 ==
    C11_Case => /\ Position(emp) = << 3, 5 >>
                /\ emp.current_shift = "Afternoon"
                /\ emp.is_resting

C11_Witness == C11_Case /\ emp.name = "Ludy"

\* C20: with the three reference employees advanced in lockstep, on every day
\* exactly one employee works 'Mañana', exactly one works 'Tarde' and exactly
\* one rests.
C20_OnePerShift ==
    /\ Cardinality({ n \in DOMAIN ref : get_status_for_day(ref[n]) = << "Trabajando", "Manana" >> }) = 1
    /\ Cardinality({ n \in DOMAIN ref : get_status_for_day(ref[n]) = << "Trabajando", "Tarde" >> }) = 1
    /\ Cardinality({ n \in DOMAIN ref : get_status_for_day(ref[n]) = << "Descanso", "-" >> }) = 1

C20_Witness ==
    /\ ref_day = 24
    /\ get_status_for_day(ref["Ludy"]) = << "Trabajando", "Tarde" >>
    /\ get_status_for_day(ref["Clari"]) = << "Trabajando", "Manana" >>
    /\ get_status_for_day(ref["Sanye"]) = << "Descanso", "-" >>

\* Days from the reference date to start_date: (start_date - reference_date).days
DaysFromReference == start_date - reference_date

\* C12 (as claimed): the status recorded for every employee on the i-th
\* generated day (i from 0) is the employee's state after exactly
\* (start_date - reference_date).days + i advances from its reference position.
C12_RecordedAfterAnchoredAdvances ==
    pc \in {"loop", "returned", "ValueError"} =>
        \A i \in 1 .. Len(general_schedule) : \A n \in GeneratorNames :
            /\ general_schedule[i][n] =
                  get_schedule_info(advance_n(anchor, DaysFromReference + (i - 1))[n])
            /\ individual_schedules[n][i].status = general_schedule[i][n].status

\* C13: once _advance_to_start_date has run with start_date >= reference date,
\* every employee stands exactly (start_date - reference_date).days advances
\* after its reference position, the same number for all of them and no other
\* number of at most 7; with start_date equal to the reference date that is zero
\* advances, the reference position itself.
RECURSIVE advance_day_n(_, _)
advance_day_n(e, k) == IF k <= 0 THEN e ELSE advance_day_n(advance_day(e), k - 1)

C13_PreAdvanceCount ==
    (pc = "constructed" /\ start_date >= reference_date) =>
        /\ \A n \in GeneratorNames, k \in 0 .. 7 :
              (employees[n] = advance_day_n(anchor[n], k)) <=> (k = DaysFromReference)
        /\ start_date = reference_date => employees = anchor

C13_Witness ==
    /\ pc = "constructed"
    /\ start_date = 2
    /\ employees = advance_all(advance_all(anchor))
    /\ employees # anchor

\* C14 (as claimed): a generate_schedule(num_days) that returns hands back a
\* general roster of exactly num_days entries, the i-th (from 0) dated
\* start_date + i days, and for each employee exactly num_days records with
\* the same dates in the same order.
C14_RosterLengthAndDates ==
    (pc = "returned" /\ start_date >= reference_date) =>
        /\ Len(returned[1]) = num_days
        /\ \A i \in 1 .. Len(returned[1]) :
              returned[1][i].Fecha = strftime_ymd(start_date + (i - 1))
        /\ \A n \in GeneratorNames :
              /\ Len(returned[2][n]) = num_days
              /\ \A i \in 1 .. Len(returned[2][n]) :
                    returned[2][n][i].date = strftime_ymd(start_date + (i - 1))

\* C16: a read (a step of SpecEmployee that makes no advance) leaves
\* cycle_index, day_in_cycle, shift and resting as they were, and returns what
\* the previous read of the same kind returned if no advance_day came between;
\* only an advance_day step changes the employee.
C16_ReadsArePure ==
    [][ /\ steps' = steps =>
              /\ emp' = emp
              /\ (last_read.status # << >> /\ last_read'.status # << >>)
                    => last_read'.status = last_read.status
              /\ (last_read.info # << >> /\ last_read'.info # << >>)
                    => last_read'.info = last_read.info
        /\ emp' # emp => steps' = steps + 1 ]_vars

C16_Witness ==
    /\ steps >= 1
    /\ last_read.status = << get_status_for_day(emp) >>
    /\ last_read.info = << get_schedule_info(emp) >>
    /\ emp.is_resting

(***************************************************************************)
(* SpecTable: the methods of Employee read the table through               *)
(* self.ROTATION_PATTERN, a class attribute that an assignment or a         *)
(* subclass can replace. The specification constructs an Employee while    *)
(* the attribute holds one of several tables and advances it.              *)
(***************************************************************************)
Tables ==
    { ROTATION_PATTERN,
      << >>,
      << <<0, 0>> >>,
      << <<3, 0>>, <<3, 2>> >>,
      << <<-1, 2>>, <<3, 2>> >>,
      << <<3, 2>>, <<0, 1>> >> }

\* What the spec calls a valid table: not empty, work and rest values positive.
ValidTable(P) ==
    /\ Len(P) >= 1
    /\ \A i \in 1 .. Len(P) : P[i][1] >= 1 /\ P[i][2] >= 1

\* Employee.advance_day reading the table P. get_current_cycle raises
\* IndexError, before anything is assigned, when cycle_index is not an index
\* of P.
advance_day_on(P, e) ==
    IF e.current_cycle_index >= Len(P)
    THEN [ raised |-> "IndexError", self |-> e ]
    ELSE LET total_cycle_days == P[e.current_cycle_index + 1][1]
                                   + P[e.current_cycle_index + 1][2]
             d       == e.current_day_in_cycle + 1
             wrapped == d > total_cycle_days
             ci      == IF wrapped THEN (e.current_cycle_index + 1) % Len(P)
                                   ELSE e.current_cycle_index
             d2      == IF wrapped THEN 1 ELSE d
         IN  [ raised |-> "",
               self   |-> [e EXCEPT !.current_cycle_index = ci,
                                    !.current_day_in_cycle = d2,
                                    !.current_shift =
                                        IF wrapped THEN cycle_shifts[ci + 1] ELSE @,
                                    !.is_resting = d2 > P[ci + 1][1]] ]

InitTable ==
    /\ pattern \in Tables
    /\ t_pc = "class"
    /\ t_emp = << >>
    /\ t_steps = 0
    /\ EmpIdle
    /\ RefIdle
    /\ GenIdle
    /\ SearchIdle
    /\ TwoIdle
    /\ RepeatIdle
    /\ CalendarIdle

\* Employee(name, cycle_index, day_in_cycle, shift, is_resting): __init__ does
\* not look at the table.
ConstructOnTable ==
    /\ t_pc = "class"
    /\ \E ci \in 0 .. 3, d \in 1 .. 6, r \in BOOLEAN :
          t_emp' = Employee("Ludy", ci, d, "Tarde", r)
    /\ t_pc' = "constructed"
    /\ UNCHANGED << pattern, t_steps, empVars, refVars, genVars, searchVars, twoVars, repeatVars, calendarVars >>

AdvanceOnTable ==
    /\ t_pc \in {"constructed", "advanced"}
    /\ t_steps < MaxTableSteps
    /\ t_emp' = advance_day_on(pattern, t_emp).self
    /\ t_pc' = IF advance_day_on(pattern, t_emp).raised = "" THEN "advanced"
               ELSE advance_day_on(pattern, t_emp).raised
    /\ t_steps' = t_steps + 1
    /\ UNCHANGED << pattern, empVars, refVars, genVars, searchVars, twoVars, repeatVars, calendarVars >>

NextTable ==
    \/ ConstructOnTable
    \/ AdvanceOnTable

SpecTable == InitTable /\ [][NextTable]_vars

\* C18 (as claimed): constructing an Employee fails when the table is empty or
\* holds a block with a non-positive work or rest value, so no Employee exists
\* and advance_day never runs against such a table.
C18_TableValidated ==
    t_pc \in {"constructed", "advanced", "IndexError"} => ValidTable(pattern)

(***************************************************************************)
(* SpecSearch: test_rotations.test_combination, called with each           *)
(* combination of starting positions that find_working_combination tries.  *)
(***************************************************************************)
\* range(10), the days test_combination looks at.
TestDays == 10

\* The three Employee(...) calls that open test_combination.
test_employees(args) ==
    [ n \in GeneratorNames |->
        Employee(n, args[n][1], args[n][2],
                 IF n = "Isaac" THEN "Afternoon" ELSE "Morning",
                 args[n][2] > ROTATION_PATTERN[args[n][1] + 1][1]) ]

\* The generator expression of the loop: the employees whose
\* get_status_for_day()[0] equals 'Working'.
test_working_count(emps) ==
    Cardinality({ n \in DOMAIN emps : get_status_for_day(emps[n])[1] = "Working" })

\* The combinations the six nested loops of find_working_combination try.
SearchArgs == [ GeneratorNames -> ValidPositions ]

InitSearch ==
    /\ tc_args \in SearchArgs
    /\ tc_pc = "called"
    /\ tc_employees = << >>
    /\ tc_day = 0
    /\ valid_days = 0
    /\ EmpIdle
    /\ RefIdle
    /\ GenIdle
    /\ TableIdle
    /\ TwoIdle
    /\ RepeatIdle
    /\ CalendarIdle

\* Lines 12-23: the employees and valid_days = 0.
TestCombinationCreate ==
    /\ tc_pc = "called"
    /\ tc_employees' = test_employees(tc_args)
    /\ valid_days' = 0
    /\ tc_day' = 0
    /\ tc_pc' = "loop"
    /\ UNCHANGED << tc_args, empVars, refVars, genVars, tableVars, twoVars, repeatVars, calendarVars >>

\* One iteration of "for day in range(10)", lines 24-35.
TestCombinationDay ==
    /\ tc_pc = "loop"
    /\ tc_day < TestDays
    /\ IF test_working_count(tc_employees) = 2
       THEN /\ valid_days' = valid_days + 1
            /\ tc_employees' = advance_all(tc_employees)
            /\ tc_day' = tc_day + 1
            /\ tc_pc' = "loop"
       ELSE /\ tc_pc' = "break"
            /\ UNCHANGED << valid_days, tc_employees, tc_day >>
    /\ UNCHANGED << tc_args, empVars, refVars, genVars, tableVars, twoVars, repeatVars, calendarVars >>

\* "return valid_days", line 37.
TestCombinationReturn ==
    /\ \/ tc_pc = "break"
       \/ tc_pc = "loop" /\ tc_day >= TestDays
    /\ tc_pc' = "returned"
    /\ UNCHANGED << tc_args, tc_employees, tc_day, valid_days, empVars, refVars,
                    genVars, tableVars, twoVars, repeatVars, calendarVars >>

NextSearch ==
    \/ TestCombinationCreate
    \/ TestCombinationDay
    \/ TestCombinationReturn

SpecSearch == InitSearch /\ [][NextSearch]_vars

\* The number of consecutive days, from the position emps and for at most k
\* days, on which exactly two employees are not resting.
RECURSIVE ConsecutiveStaffedDays(_, _)
ConsecutiveStaffedDays(emps, k) ==
    IF k = 0 \/ Cardinality({ n \in DOMAIN emps : ~ emps[n].is_resting }) # 2
    THEN 0
    ELSE 1 + ConsecutiveStaffedDays(advance_all(emps), k - 1)

\* C19 (as claimed): test_combination returns the number of consecutive days
\* from the start, at most 10, on which exactly two of the three employees are
\* working, so it returns 10 for a combination whose first ten days each have
\* exactly two employees working.
C19_CountsStaffedDays ==
    tc_pc = "returned"
        => valid_days = ConsecutiveStaffedDays(test_employees(tc_args), TestDays)

(***************************************************************************)
(* SpecTwo: two ScheduleGenerator objects, as two web requests or two CLI  *)
(* runs make them, whose steps interleave. Employee objects live in a heap *)
(* and self.employees holds references to them, so that state shared       *)
(* between the two generators would show.                                  *)
(***************************************************************************)
MaxTwoStart == 1

MaxTwoDays == 2

Generators == {1, 2}

ObjectIds == 1 .. 3 * Cardinality(Generators)

\* A faulty variant of object_ids: the factories hand every generator the
\* same three objects.
object_ids_shared(g) ==
    [ n \in GeneratorNames |->
        CASE n = "Ludy" -> 1 [] n = "Isaac" -> 2 [] n = "Genesis" -> 3 ]

\* A faulty variant of object_ids: create_ludy hands every generator the same
\* object.
object_ids_shared_ludy(g) ==
    [ n \in GeneratorNames |->
        CASE n = "Ludy" -> 1
          [] n = "Isaac" -> 3 * (g - 1) + 2
          [] n = "Genesis" -> 3 * (g - 1) + 3 ]

\* The objects the dict literal of __init__ binds to the keys of
\* self.employees in generator g: every factory call runs Employee(...) and
\* so returns an object no other call returned.
object_ids(g) ==
    [ n \in GeneratorNames |->
        CASE n = "Ludy" -> 3 * (g - 1) + 1
          [] n = "Isaac" -> 3 * (g - 1) + 2
          [] n = "Genesis" -> 3 * (g - 1) + 3 ]

\* self.employees seen through its references.
deref(h, ids) == [ n \in DOMAIN ids |-> h[ids[n]] ]

\* The heap after the objects ids refers to took the states emps.
store(h, ids, emps) ==
    [ i \in DOMAIN h |->
        IF \E n \in DOMAIN ids : ids[n] = i
        THEN emps[CHOOSE n \in DOMAIN ids : ids[n] = i]
        ELSE h[i] ]

\* One iteration of the loop of generate_schedule (lines 80-119) on the
\* employees emps, with the locals gen and ind.
generate_day(emps, sd, d, gen, ind) ==
    LET current_date == sd + d
        day_schedule == [ n \in GeneratorNames |-> get_schedule_info(emps[n]) ]
        individual_record(n) ==
            [ date |-> strftime_ymd(current_date), weekday |-> weekday(current_date) ]
              @@ day_schedule[n]
        general_record ==
            [ Fecha |-> strftime_ymd(current_date),
              Dia   |-> spanish_weekdays(weekday(current_date)) ]
              @@ day_schedule
        valid == validate_daily_schedule(day_schedule)
    IN  [ raised    |-> IF valid THEN "" ELSE "ValueError",
          employees |-> IF valid THEN advance_all(emps) ELSE emps,
          general_schedule |-> IF valid THEN Append(gen, general_record) ELSE gen,
          individual_schedules |->
              [ n \in GeneratorNames |-> Append(ind[n], individual_record(n)) ] ]

\* Starting positions the two generators are populated with: one staffed by
\* exactly two employees on its first days, one with three employees working
\* on the first day, one with a single employee working on the second day.
TwoConfigs ==
    { [ n \in GeneratorNames |->
          CASE n = "Ludy" -> <<3, 4>> [] n = "Isaac" -> <<2, 2>> [] n = "Genesis" -> <<0, 5>> ],
      [ n \in GeneratorNames |-> <<0, 1>> ],
      [ n \in GeneratorNames |->
          CASE n = "Ludy" -> <<3, 4>> [] n = "Isaac" -> <<2, 2>> [] n = "Genesis" -> <<0, 4>> ] }

TwoStartDates == 0 .. MaxTwoStart

TwoNumDays == 0 .. MaxTwoDays

config_employees(cfg) == [ n \in GeneratorNames |-> EmployeeAt(n, cfg[n]) ]

\* A ScheduleGenerator object before __init__ ran ("new"), or holding three
\* employees of its own that _advance_to_start_date has not moved yet
\* ("populated").
Generator(kind, g, cfg, sd) ==
    [ pc         |-> kind,
      config     |-> IF kind = "populated" THEN cfg ELSE << >>,
      employees  |-> IF kind = "populated" THEN object_ids(g) ELSE << >>,
      start_date |-> sd,
      num_days   |-> 0,
      day        |-> 0,
      general_schedule     |-> << >>,
      individual_schedules |-> << >>,
      returned   |-> << >> ]

RECURSIVE populate(_, _, _)
populate(h, gs, todo) ==
    IF todo = {} THEN h
    ELSE LET g == CHOOSE x \in todo : \A y \in todo : x <= y
         IN  populate(IF gs[g].pc = "populated"
                      THEN store(h, gs[g].employees, config_employees(gs[g].config))
                      ELSE h,
                      gs, todo \ {g})

InitTwo ==
    /\ \E kind \in [Generators -> {"new", "populated"}],
          cfg \in [Generators -> TwoConfigs],
          sd \in [Generators -> TwoStartDates] :
          gens = [ g \in Generators |-> Generator(kind[g], g, cfg[g], sd[g]) ]
    /\ heap = populate([ i \in ObjectIds |-> << >> ], gens, Generators)
    /\ EmpIdle
    /\ RefIdle
    /\ GenIdle
    /\ TableIdle
    /\ SearchIdle
    /\ RepeatIdle
    /\ CalendarIdle

\* ScheduleGenerator.__init__ of generator g.
TwoInitGenerator(g) ==
    /\ gens[g].pc = "new"
    /\ IF \A n \in GeneratorNames : generator_factories[n] \in EmployeeFactories
       THEN /\ heap' = store(heap, object_ids(g),
                             advance_to_start_date(
                                 [ n \in GeneratorNames |->
                                     call_factory(generator_factories[n]) ],
                                 gens[g].start_date))
            /\ gens' = [gens EXCEPT ![g].employees = object_ids(g),
                                    ![g].pc = "constructed"]
       ELSE /\ gens' = [gens EXCEPT ![g].pc = "AttributeError"]
            /\ UNCHANGED heap
    /\ UNCHANGED << empVars, refVars, genVars, tableVars, searchVars, repeatVars, calendarVars >>

\* self._advance_to_start_date() of generator g.
TwoAdvanceToStartDate(g) ==
    /\ gens[g].pc = "populated"
    /\ heap' = store(heap, gens[g].employees,
                     advance_to_start_date(deref(heap, gens[g].employees),
                                           gens[g].start_date))
    /\ gens' = [gens EXCEPT ![g].pc = "constructed"]
    /\ UNCHANGED << empVars, refVars, genVars, tableVars, searchVars, repeatVars, calendarVars >>

\* generate_schedule(n) of generator g: the locals before the loop.
TwoGenerateCall(g) ==
    /\ gens[g].pc = "constructed"
    /\ \E n \in TwoNumDays :
          gens' = [gens EXCEPT ![g].num_days = n,
                               ![g].day = 0,
                               ![g].general_schedule = << >>,
                               ![g].individual_schedules =
                                   [ k \in GeneratorNames |-> << >> ],
                               ![g].pc = "loop"]
    /\ UNCHANGED << heap, empVars, refVars, genVars, tableVars, searchVars, repeatVars, calendarVars >>

\* One iteration of the loop of generate_schedule in generator g.
TwoGenerateDay(g) ==
    /\ gens[g].pc = "loop"
    /\ gens[g].day < gens[g].num_days
    /\ LET r == generate_day(deref(heap, gens[g].employees), gens[g].start_date,
                             gens[g].day, gens[g].general_schedule,
                             gens[g].individual_schedules)
       IN  /\ heap' = store(heap, gens[g].employees, r.employees)
           /\ gens' = [gens EXCEPT
                         ![g].general_schedule = r.general_schedule,
                         ![g].individual_schedules = r.individual_schedules,
                         ![g].day = IF r.raised = "" THEN @ + 1 ELSE @,
                         ![g].pc = IF r.raised = "" THEN "loop" ELSE r.raised]
    /\ UNCHANGED << empVars, refVars, genVars, tableVars, searchVars, repeatVars, calendarVars >>

\* The return of generate_schedule in generator g.
TwoGenerateReturn(g) ==
    /\ gens[g].pc = "loop"
    /\ gens[g].day >= gens[g].num_days
    /\ gens' = [gens EXCEPT
                  ![g].returned = << gens[g].general_schedule,
                                     gens[g].individual_schedules >>,
                  ![g].pc = "returned"]
    /\ UNCHANGED << heap, empVars, refVars, genVars, tableVars, searchVars, repeatVars, calendarVars >>

NextTwo ==
    \E g \in Generators :
        \/ TwoInitGenerator(g)
        \/ TwoAdvanceToStartDate(g)
        \/ TwoGenerateCall(g)
        \/ TwoGenerateDay(g)
        \/ TwoGenerateReturn(g)

SpecTwo == InitTwo /\ [][NextTwo]_vars

\* A generator running alone from the employees emps: its employees and
\* locals after k iterations of the loop, or after the iteration that raised.
RECURSIVE solo_at(_, _, _)
solo_at(emps, sd, k) ==
    IF k = 0
    THEN [ raised    |-> "",
           employees |-> advance_to_start_date(emps, sd),
           general_schedule     |-> << >>,
           individual_schedules |-> [ n \in GeneratorNames |-> << >> ] ]
    ELSE LET prev == solo_at(emps, sd, k - 1)
         IN  IF prev.raised # "" THEN prev
             ELSE generate_day(prev.employees, sd, k - 1, prev.general_schedule,
                               prev.individual_schedules)

Finished(gr) == gr.pc \in {"returned", "ValueError", "AttributeError"}

\* C15: two generators made with the same configuration and the same
\* start_date, on which generate_schedule was called with the same num_days,
\* end the same way: both return the same general and individual rosters, or
\* both raise the same error.
C15_Deterministic ==
    \A g1 \in Generators, g2 \in Generators :
        ( /\ Finished(gens[g1]) /\ Finished(gens[g2])
          /\ gens[g1].config = gens[g2].config
          /\ gens[g1].start_date = gens[g2].start_date
          /\ gens[g1].num_days = gens[g2].num_days )
        => /\ gens[g1].pc = gens[g2].pc
           /\ gens[g1].returned = gens[g2].returned

C15_Witness ==
    /\ gens # << >>
    /\ gens[1].pc = "returned" /\ gens[2].pc = "returned"
    /\ gens[1].config = gens[2].config
    /\ gens[1].start_date = gens[2].start_date
    /\ gens[1].num_days = MaxTwoDays /\ gens[2].num_days = MaxTwoDays
    /\ Len(gens[1].returned[1]) = MaxTwoDays

\* The state a generator has when it runs alone.
SameAsAlone(gr) ==
    LET here == deref(heap, gr.employees)
        cfg  == config_employees(gr.config)
        alone(k) == solo_at(cfg, gr.start_date, k)
    IN  CASE gr.pc \in {"new", "AttributeError"} ->
                gr.employees = << >> /\ gr.returned = << >>
          [] gr.pc = "populated" -> here = cfg
          [] gr.pc = "constructed" -> here = alone(0).employees
          [] gr.pc = "loop" ->
                /\ alone(gr.day).raised = ""
                /\ here = alone(gr.day).employees
                /\ gr.general_schedule = alone(gr.day).general_schedule
                /\ gr.individual_schedules = alone(gr.day).individual_schedules
          [] gr.pc = "ValueError" ->
                /\ alone(gr.day + 1).raised = "ValueError"
                /\ alone(gr.day).raised = ""
                /\ here = alone(gr.day + 1).employees
                /\ gr.returned = << >>
          [] gr.pc = "returned" ->
                /\ alone(gr.num_days).raised = ""
                /\ here = alone(gr.num_days).employees
                /\ gr.returned = << alone(gr.num_days).general_schedule,
                                    alone(gr.num_days).individual_schedules >>

\* C17: however the steps of two generators interleave, each generator's
\* employees and returned rosters are those it has when it runs alone.
C17_NoSharedState == \A g \in Generators : SameAsAlone(gens[g])

C17_Witness ==
    /\ gens # << >>
    /\ gens[1].pc = "loop" /\ gens[1].day = 1
    /\ gens[2].pc = "returned" /\ gens[2].num_days = MaxTwoDays
    /\ gens[1].start_date # gens[2].start_date
    /\ gens[1].config = gens[2].config

\* C21: each of the three factory employees, at the reference date and after
\* any number of advance_day calls, has the shift that cycle_shifts gives for
\* its current block.
C21_ShiftMatchesBlock ==
    \A n \in DOMAIN ref : ref[n].current_shift = cycle_shifts[ref[n].current_cycle_index + 1]

C21_Witness ==
    /\ ref_day = 30
    /\ ref["Ludy"].current_cycle_index = 1
    /\ ref["Ludy"].current_shift = "Manana"
    /\ ref["Clari"].current_shift = "Tarde"
    /\ ref["Clari"].current_cycle_index = 2

\* C25 (as claimed): constructing a ScheduleGenerator with a start_date on or
\* after the reference date completes without raising.
C25_ConstructorCompletes ==
    start_date >= reference_date => pc # "AttributeError"

\* The last k days of the log, or the whole log when it is shorter.
LastDays(k) ==
    { i \in 1 .. Len(resting_log) : i > Len(resting_log) - k }

\* C23: an employee constructed at a valid position with a resting flag that
\* agrees with the position never works more than 4 days in a row, never
\* rests more than 2 days in a row, and in every 21 consecutive days works 14
\* and rests 7. Every run of days ends at some state, so the days that end
\* at the current one are the ones looked at.
C23_WorkRestLimits ==
    emp0.is_resting = DerivedResting(emp0) =>
        /\ Len(resting_log) = steps + 1
        /\ Len(resting_log) >= 5 => \E i \in LastDays(5) : resting_log[i]
        /\ Len(resting_log) >= 3 => \E i \in LastDays(3) : ~ resting_log[i]
        /\ Len(resting_log) >= 21 =>
              /\ Cardinality({ i \in LastDays(21) : ~ resting_log[i] }) = 14
              /\ Cardinality({ i \in LastDays(21) : resting_log[i] }) = 7

C23_Witness ==
    /\ steps = 30
    /\ emp0.is_resting = DerivedResting(emp0)
    /\ Position(emp0) = << 2, 3 >>
    /\ Len(resting_log) = 31
    /\ \A i \in 1 .. 2 : ~ resting_log[i]
    /\ resting_log[3]

(***************************************************************************)
(* SpecRepeat: one ScheduleGenerator object on which generate_schedule is  *)
(* called, returns, and is called again.                                   *)
(***************************************************************************)
MaxRepeatStart == 1

MaxRepeatDays == 22

MaxCalls == 2

RepeatStartDates == -1 .. MaxRepeatStart

RepeatNumDays == -1 .. MaxRepeatDays

\* The generator object: before __init__ ran ("new"), or holding three
\* employees that _advance_to_start_date has not moved yet ("populated").
\* calls lists what each finished call of generate_schedule was given and
\* returned.
RepeatGenerator(kind, cfg, sd) ==
    [ pc         |-> kind,
      employees  |-> IF kind = "populated" THEN config_employees(cfg) ELSE << >>,
      anchor     |-> IF kind = "populated" THEN config_employees(cfg) ELSE << >>,
      start_date |-> sd,
      num_days   |-> 0,
      day        |-> 0,
      general_schedule     |-> << >>,
      individual_schedules |-> << >>,
      calls      |-> << >> ]

InitRepeat ==
    /\ \E kind \in {"new", "populated"}, cfg \in TwoConfigs, sd \in RepeatStartDates :
          again = RepeatGenerator(kind, cfg, sd)
    /\ EmpIdle
    /\ RefIdle
    /\ GenIdle
    /\ TableIdle
    /\ SearchIdle
    /\ TwoIdle
    /\ CalendarIdle

\* ScheduleGenerator.__init__.
RepeatInitGenerator ==
    /\ again.pc = "new"
    /\ IF \A n \in GeneratorNames : generator_factories[n] \in EmployeeFactories
       THEN LET made == [ n \in GeneratorNames |-> call_factory(generator_factories[n]) ]
            IN  again' = [again EXCEPT
                            !.anchor = made,
                            !.employees = advance_to_start_date(made, again.start_date),
                            !.pc = "constructed"]
       ELSE again' = [again EXCEPT !.pc = "AttributeError"]
    /\ UNCHANGED << empVars, refVars, genVars, tableVars, searchVars, twoVars, calendarVars >>

\* self._advance_to_start_date().
RepeatAdvanceToStartDate ==
    /\ again.pc = "populated"
    /\ again' = [again EXCEPT
                   !.employees = advance_to_start_date(again.employees, again.start_date),
                   !.pc = "constructed"]
    /\ UNCHANGED << empVars, refVars, genVars, tableVars, searchVars, twoVars, calendarVars >>

\* generate_schedule(n), lines 75-78, on a generator just constructed or one
\* whose previous call returned: the locals start empty, self.employees is
\* left as it is.
RepeatGenerateCall ==
    /\ again.pc \in {"constructed", "returned"}
    /\ Len(again.calls) < MaxCalls
    /\ \E n \in RepeatNumDays :
          again' = [again EXCEPT
                      !.num_days = n,
                      !.day = 0,
                      !.general_schedule = << >>,
                      !.individual_schedules = [ k \in GeneratorNames |-> << >> ],
                      !.pc = "loop"]
    /\ UNCHANGED << empVars, refVars, genVars, tableVars, searchVars, twoVars, calendarVars >>

\* One iteration of the loop, lines 80-119.
RepeatGenerateDay ==
    /\ again.pc = "loop"
    /\ again.day < again.num_days
    /\ LET r == generate_day(again.employees, again.start_date, again.day,
                             again.general_schedule, again.individual_schedules)
       IN  again' = [again EXCEPT
                       !.employees = r.employees,
                       !.general_schedule = r.general_schedule,
                       !.individual_schedules = r.individual_schedules,
                       !.day = IF r.raised = "" THEN @ + 1 ELSE @,
                       !.pc = IF r.raised = "" THEN "loop" ELSE r.raised]
    /\ UNCHANGED << empVars, refVars, genVars, tableVars, searchVars, twoVars, calendarVars >>

\* "return general_schedule, individual_schedules", line 121.
RepeatGenerateReturn ==
    /\ again.pc = "loop"
    /\ again.day >= again.num_days
    /\ again' = [again EXCEPT
                   !.calls = Append(@, [ num_days |-> again.num_days,
                                         general_schedule |-> again.general_schedule,
                                         individual_schedules |->
                                             again.individual_schedules ]),
                   !.pc = "returned"]
    /\ UNCHANGED << empVars, refVars, genVars, tableVars, searchVars, twoVars, calendarVars >>

NextRepeat ==
    \/ RepeatInitGenerator
    \/ RepeatAdvanceToStartDate
    \/ RepeatGenerateCall
    \/ RepeatGenerateDay
    \/ RepeatGenerateReturn

SpecRepeat == InitRepeat /\ [][NextRepeat]_vars

\* What a general_schedule entry reports about the employees: its fields
\* other than 'Fecha' and 'Dia'.
EntryStatuses(entry) == [ n \in GeneratorNames |-> entry[n] ]

\* What the employees emps report on a day.
StatusesOf(emps) == [ n \in GeneratorNames |-> get_schedule_info(emps[n]) ]

Min(a, b) == IF a <= b THEN a ELSE b

\* C22 (as claimed): when generate_schedule(n) returns, every employee is in
\* its reference state advanced (start_date - reference_date).days + n times;
\* a second generate_schedule(m) labels its i-th entry start_date + i and
\* reports the statuses of day start_date + n + i; and the entries of the
\* second call repeat those of the first only when n is a multiple of 21.
C22_NoRewind ==
    LET sd     == again.start_date
        before == sd - reference_date
        n      == again.calls[1].num_days
        m      == again.calls[2].num_days
        first  == again.calls[1].general_schedule
        second == again.calls[2].general_schedule
    IN  /\ (again # << >> /\ again.pc = "returned" /\ Len(again.calls) = 1)
              => again.employees = advance_n(again.anchor, before + n)
        /\ (again # << >> /\ again.pc = "returned" /\ Len(again.calls) = 2)
              => /\ \A i \in 1 .. Len(second) :
                       /\ second[i].Fecha = strftime_ymd(sd + (i - 1))
                       /\ EntryStatuses(second[i])
                             = StatusesOf(advance_n(again.anchor, before + n + (i - 1)))
                 /\ ( /\ n >= 1 /\ m >= 1
                      /\ \A i \in 1 .. Min(Len(first), Len(second)) :
                            EntryStatuses(second[i]) = EntryStatuses(first[i]) )
                       => n % 21 = 0

(***************************************************************************)
(* SpecCalendar: ScheduleGenerator.create_calendar_format called with a    *)
(* general schedule of consecutive days. Dates are (year, month, day).     *)
(* A month grid is kept as its cells that carry a day, in the order the    *)
(* two for loops visit them; the '' cells of calendar.monthcalendar carry  *)
(* no day and no entry.                                                    *)
(***************************************************************************)
MaxCalendarDays == 3

CalendarYears == {2024, 2025}

is_leap(y) == (y % 4 = 0 /\ y % 100 # 0) \/ y % 400 = 0

\* The number of days of month m of year y, as datetime and calendar know it.
days_in_month(y, m) ==
    CASE m \in {4, 6, 9, 11} -> 30
      [] m = 2 -> IF is_leap(y) THEN 29 ELSE 28
      [] OTHER -> 31

\* d + timedelta(days=1)
next_day(d) ==
    IF d[3] < days_in_month(d[1], d[2]) THEN << d[1], d[2], d[3] + 1 >>
    ELSE IF d[2] < 12 THEN << d[1], d[2] + 1, 1 >>
    ELSE << d[1] + 1, 1, 1 >>

\* d + timedelta(days=k)
RECURSIVE add_days(_, _)
add_days(d, k) == IF k = 0 THEN d ELSE add_days(next_day(d), k - 1)

\* day_date >= start_date
date_ge(a, b) ==
    \/ a[1] > b[1]
    \/ a[1] = b[1] /\ a[2] > b[2]
    \/ a[1] = b[1] /\ a[2] = b[2] /\ a[3] >= b[3]

\* Lines 199-202: current_date.replace(...) keeps the day of current_date;
\* date raises ValueError when the new month has no such day.
move_to_next_month(d) ==
    LET moved == IF d[2] = 12 THEN << d[1] + 1, 1, d[3] >>
                              ELSE << d[1], d[2] + 1, d[3] >>
    IN  [ raised |-> IF moved[3] > days_in_month(moved[1], moved[2])
                     THEN "ValueError" ELSE "",
          current_date |-> moved ]

\* Lines 159-196 for the days of one month from day on: the cell of each day,
\* and schedule_index as the loops leave it.
RECURSIVE fill_month(_, _, _, _, _, _, _)
fill_month(y, m, day_of_month, start, schedule, idx, cells) ==
    IF day_of_month > days_in_month(y, m)
    THEN [ cells |-> cells, schedule_index |-> idx ]
    ELSE LET day_date == << y, m, day_of_month >>
             found == /\ date_ge(day_date, start)
                      /\ idx < Len(schedule)
                      /\ day_date = add_days(start, idx)
         IN  fill_month(y, m, day_of_month + 1, start, schedule,
                        IF found THEN idx + 1 ELSE idx,
                        Append(cells,
                               IF found
                               THEN [ day |-> day_of_month, schedule |-> << schedule[idx + 1] >> ]
                               ELSE [ day |-> day_of_month, schedule |-> << >> ]))

\* A general schedule of n consecutive days from start, as generate_schedule
\* labels its entries.
consecutive_schedule(start, n) == [ i \in 1 .. n |-> [ Fecha |-> add_days(start, i - 1) ] ]

CalendarStartDates ==
    { d \in CalendarYears \X (1 .. 12) \X (1 .. 31) : d[3] <= days_in_month(d[1], d[2]) }

\* The call: lines 141-143.
InitCalendar ==
    /\ \E start \in CalendarStartDates, n \in 1 .. MaxCalendarDays :
          cal = [ pc |-> "while",
                  start_date |-> start,
                  general_schedule |-> consecutive_schedule(start, n),
                  current_date |-> start,
                  schedule_index |-> 0,
                  monthly_calendars |-> << >> ]
    /\ EmpIdle
    /\ RefIdle
    /\ GenIdle
    /\ TableIdle
    /\ SearchIdle
    /\ TwoIdle
    /\ RepeatIdle

\* Lines 146-196: one month's grid is built and stored under its key.
CalendarMonth ==
    /\ cal.pc = "while"
    /\ cal.schedule_index < Len(cal.general_schedule)
    /\ LET filled == fill_month(cal.current_date[1], cal.current_date[2], 1,
                                cal.start_date, cal.general_schedule,
                                cal.schedule_index, << >>)
       IN  cal' = [cal EXCEPT
                     !.monthly_calendars =
                         Append(@, [ year  |-> cal.current_date[1],
                                     month |-> cal.current_date[2],
                                     cells |-> filled.cells ]),
                     !.schedule_index = filled.schedule_index,
                     !.pc = "next_month"]
    /\ UNCHANGED << empVars, refVars, genVars, tableVars, searchVars, twoVars, repeatVars >>

\* Lines 198-207: the move to the next month, then the break.
CalendarNextMonth ==
    /\ cal.pc = "next_month"
    /\ LET moved == move_to_next_month(cal.current_date)
       IN  IF moved.raised # ""
           THEN cal' = [cal EXCEPT !.pc = moved.raised]
           ELSE cal' = [cal EXCEPT
                          !.current_date = moved.current_date,
                          !.pc = IF cal.schedule_index >= Len(cal.general_schedule)
                                 THEN "returned" ELSE "while"]
    /\ UNCHANGED << empVars, refVars, genVars, tableVars, searchVars, twoVars, repeatVars >>

NextCalendar ==
    \/ CalendarMonth
    \/ CalendarNextMonth

SpecCalendar == InitCalendar /\ [][NextCalendar]_vars

\* The places of the cells of the grids: (grid, cell).
CellPlaces ==
    UNION { { << g, k >> : k \in 1 .. Len(cal.monthly_calendars[g].cells) } :
            g \in 1 .. Len(cal.monthly_calendars) }

CellDate(p) ==
    << cal.monthly_calendars[p[1]].year, cal.monthly_calendars[p[1]].month,
       cal.monthly_calendars[p[1]].cells[p[2]].day >>

CellEntry(p) == cal.monthly_calendars[p[1]].cells[p[2]].schedule

\* The grids hold every entry once, in the cell of its date, and nothing else.
EntriesPlaced ==
    /\ \A i \in 1 .. Len(cal.general_schedule) :
          /\ Cardinality({ p \in CellPlaces :
                             CellEntry(p) = << cal.general_schedule[i] >> }) = 1
          /\ \A p \in CellPlaces :
                CellEntry(p) = << cal.general_schedule[i] >>
                    => CellDate(p) = add_days(cal.start_date, i - 1)
    /\ \A p \in CellPlaces :
          CellEntry(p) # << >> => CellEntry(p)[1].Fecha = CellDate(p)

\* C24 (as claimed): for any start_date and any schedule of n >= 1 consecutive
\* days from it, create_calendar_format raises nothing and returns grids in
\* which every entry is in exactly one cell, the cell of its date, and no
\* cell carries an entry of another date.
C24_EveryEntryInItsCell ==
    /\ cal.pc # "ValueError"
    /\ cal.pc = "returned" => EntriesPlaced

====
